---- MODULE Spec2Model ----
(***************************************************************************)
(* xbot: notification bot detector.                                        *)
(*   src/src/content/index.ts            BotDetector (the coordinator)     *)
(*   src/unnamed/part_000                DOMExtractor (extraction)         *)
(*   src/src/services/profile-analyzer.ts ProfileAnalyzer (scoring)        *)
(* Strings are sequences of one-character strings, so that the regular     *)
(* expressions of the source are computed on characters.  Numbers of type  *)
(* double are kept exactly, see DAdd.                                      *)
(***************************************************************************)
EXTENDS Integers, Sequences, FiniteSets, Bags, TLC

VARIABLES
    dom,          \* the page: the content of every notification cell
    marker,       \* element -> has attribute data-xbot-processed
    feedPresent,  \* the notifications feed is in the document
    initPc,       \* position of init() / waitForNotificationsFeed()
    retryCount,   \* BotDetector.retryCount
    observer,     \* BotDetector.observer is installed
    tasks,        \* the bag of all invocations of processNotification so far
    clock,        \* Date.now()
    arg,          \* input of the pure-function specifications
    ret           \* result of the pure-function specifications

vars == <<dom, marker, feedPresent, initPc, retryCount, observer, tasks,
          clock, arg, ret>>

\* null / undefined where an object is expected
Null == [isNull |-> TRUE]
\* null / undefined where a string is expected (no string has such a character)
NullString == <<"<null>">>

----------------------------------------------------------------------------
(* Characters and strings *)

LowerSeq == <<"a","b","c","d","e","f","g","h","i","j","k","l","m",
              "n","o","p","q","r","s","t","u","v","w","x","y","z">>
UpperSeq == <<"A","B","C","D","E","F","G","H","I","J","K","L","M",
              "N","O","P","Q","R","S","T","U","V","W","X","Y","Z">>
DigitSeq == <<"0","1","2","3","4","5","6","7","8","9">>

Range(s) == {s[i] : i \in DOMAIN s}
Lower == Range(LowerSeq)
Upper == Range(UpperSeq)
Digit == Range(DigitSeq)

\* String.prototype.toLowerCase on one (ASCII) character
ToLowerChar(c) ==
    IF c \in Upper THEN LowerSeq[CHOOSE i \in DOMAIN UpperSeq : UpperSeq[i] = c]
    ELSE c

\* String.prototype.toLowerCase
toLowerCase(s) == [i \in DOMAIN s |-> ToLowerChar(s[i])]

\* s.slice(from - 1) with 1-based from: the characters from..Len(s)
SliceFrom(s, from) == SubSeq(s, from, Len(s))

\* pat occurs in s at position i
OccursAt(s, pat, i) ==
    /\ i >= 1
    /\ i + Len(pat) - 1 <= Len(s)
    /\ \A k \in 1..Len(pat) : s[i + k - 1] = pat[k]

\* String.prototype.includes / a regular expression that is a literal
includes(s, pat) == \E i \in 1..(Len(s) + 1) : OccursAt(s, pat, i)

\* String.prototype.startsWith
startsWith(s, pat) == OccursAt(s, pat, 1)

\* all of s[i..j] are in class
AllIn(s, i, j, class) == \A k \in i..j : s[k] \in class

RECURSIVE Concat(_)
\* the concatenation of a sequence of strings
Concat(ss) == IF ss = <<>> THEN <<>> ELSE Head(ss) \o Concat(Tail(ss))

----------------------------------------------------------------------------
(* IEEE-754 double arithmetic, exact.  A double d with 0 <= d < 2 that is a *)
(* multiple of 2^-55 is the pair [hi, lo] with d = (hi * 2^28 + lo) * 2^-55.*)
(* Every weight, every partial sum and the cap 0.9 is such a number.       *)

Limb == 2^28

D0  == [hi |-> 0, lo |-> 0]
\* 0.2 = 0x1999999999999A * 2^-55
D02 == [hi |-> 26843545, lo |-> 161061274]
\* 0.3 = 0x26666666666666 * 2^-55
D03 == [hi |-> 40265318, lo |-> 107374182]
\* 0.5 = 2^54 * 2^-55
D05 == [hi |-> 2^26, lo |-> 0]
\* 0.9 = 0x73333333333334 * 2^-55
D09 == [hi |-> 120795955, lo |-> 53687092]

DLess(a, b) == a.hi < b.hi \/ (a.hi = b.hi /\ a.lo < b.lo)
DLeq(a, b)  == a = b \/ DLess(a, b)

\* the spacing of doubles around the exact sum, in units of 2^-55:
\* 2^-52 in [1,2), 2^-53 in [1/2,1), 2^-54 in [1/4,1/2), 2^-55 below
Quantum(hi) ==
    IF hi >= 2^27 THEN 8 ELSE IF hi >= 2^26 THEN 4 ELSE IF hi >= 2^25 THEN 2 ELSE 1

\* a + b in double arithmetic: the exact sum rounded to nearest, ties to even
DAdd(a, b) ==
    LET lo0  == a.lo + b.lo
        lo   == lo0 % Limb
        hi   == a.hi + b.hi + (lo0 \div Limb)
        q    == Quantum(hi)
        r    == lo % q
        down == lo - r
        up   == \/ 2 * r > q
                \/ (2 * r = q /\ (down \div q) % 2 = 1)
        lo1  == IF up THEN down + q ELSE down
    IN  IF lo1 = Limb THEN [hi |-> hi + 1, lo |-> 0] ELSE [hi |-> hi, lo |-> lo1]

\* Math.min
DMin(a, b) == IF DLess(b, a) THEN b ELSE a

----------------------------------------------------------------------------
(* ProfileAnalyzer: src/src/services/profile-analyzer.ts *)

\* PATTERNS.randomAlphanumeric  /^[a-z0-9]{8,}$/
randomAlphanumeric(u) ==
    Len(u) >= 8 /\ AllIn(u, 1, Len(u), Lower \cup Digit)

\* PATTERNS.manyNumbers  /[0-9]{4,}/
manyNumbers(u) ==
    \E i \in 1..Len(u) : i + 3 <= Len(u) /\ AllIn(u, i, i + 3, Digit)

\* PATTERNS.botKeywords  /bot|spam|[0-9]+[a-z]+[0-9]+/
botKeywords(u) ==
    \/ includes(u, <<"b","o","t">>)
    \/ includes(u, <<"s","p","a","m">>)
    \/ \E i \in 1..Len(u) : \E j \in (i + 2)..Len(u) :
          /\ u[i] \in Digit
          /\ u[j] \in Digit
          /\ AllIn(u, i + 1, j - 1, Lower)

\* PATTERNS.randomSuffix  /[a-z]+[0-9]{4,}$/
randomSuffix(u) ==
    \E i \in 1..Len(u) :
        /\ u[i] \in Lower
        /\ Len(u) - i >= 4
        /\ AllIn(u, i + 1, Len(u), Digit)

\* PATTERNS.numericSuffix  /[0-9]{4,}$/
numericSuffix(u) ==
    Len(u) >= 4 /\ AllIn(u, Len(u) - 3, Len(u), Digit)

\* PATTERNS.randomLetters  /[A-Z]{2,}[0-9]+/
randomLetters(u) ==
    \E i \in 1..Len(u) :
        /\ i + 2 <= Len(u)
        /\ u[i] \in Upper
        /\ u[i + 1] \in Upper
        /\ u[i + 2] \in Digit

\* PATTERNS.community  /^i\/communities\//
community(u) ==
    startsWith(u, <<"i","/","c","o","m","m","u","n","i","t","i","e","s","/">>)

SCORES == [noFollowers        |-> D03,
           randomAlphanumeric |-> D03,
           manyNumbers        |-> D02,
           botKeywords        |-> D03,
           randomSuffix       |-> D02,
           numericSuffix      |-> D02,
           randomLetters      |-> D02]

\* score += w  when cond
AddIf(score, cond, w) == IF cond THEN DAdd(score, w) ELSE score

\* reasons.push(r)  when cond
PushIf(reasons, cond, r) == IF cond THEN Append(reasons, r) ELSE reasons

\* the username tested as given, not lower-cased
ScoreStepsRawName(profile) ==
    LET s0 == D0
        s1 == AddIf(s0, profile.followersCount = 0 /\ profile.followingCount = 0,
                    SCORES.noFollowers)
        username == profile.username
        s2 == AddIf(s1, randomAlphanumeric(username), SCORES.randomAlphanumeric)
        s3 == AddIf(s2, manyNumbers(username), SCORES.manyNumbers)
        s4 == AddIf(s3, botKeywords(username), SCORES.botKeywords)
        s5 == AddIf(s4, randomSuffix(username), SCORES.randomSuffix)
        s6 == AddIf(s5, numericSuffix(username), SCORES.numericSuffix)
        s7 == AddIf(s6, randomLetters(username), SCORES.randomLetters)
    IN  <<s0, s1, s2, s3, s4, s5, s6, s7>>

\* the username tests left as soon as one of them has matched
ScoreStepsFirstMatch(profile) ==
    LET s0 == D0
        s1 == AddIf(s0, profile.followersCount = 0 /\ profile.followingCount = 0,
                    SCORES.noFollowers)
        username == toLowerCase(profile.username)
        s2 == AddIf(s1, randomAlphanumeric(username), SCORES.randomAlphanumeric)
        s3 == AddIf(s2, s2 = s1 /\ manyNumbers(username), SCORES.manyNumbers)
        s4 == AddIf(s3, s3 = s1 /\ botKeywords(username), SCORES.botKeywords)
        s5 == AddIf(s4, s4 = s1 /\ randomSuffix(username), SCORES.randomSuffix)
        s6 == AddIf(s5, s5 = s1 /\ numericSuffix(username), SCORES.numericSuffix)
        s7 == AddIf(s6, s6 = s1 /\ randomLetters(username), SCORES.randomLetters)
    IN  <<s0, s1, s2, s3, s4, s5, s6, s7>>

\* the running score of calculateBotProbability after each of its seven tests
ScoreSteps(profile) ==
    LET s0 == D0
        s1 == AddIf(s0, profile.followersCount = 0 /\ profile.followingCount = 0,
                    SCORES.noFollowers)
        username == toLowerCase(profile.username)
        s2 == AddIf(s1, randomAlphanumeric(username), SCORES.randomAlphanumeric)
        s3 == AddIf(s2, manyNumbers(username), SCORES.manyNumbers)
        s4 == AddIf(s3, botKeywords(username), SCORES.botKeywords)
        s5 == AddIf(s4, randomSuffix(username), SCORES.randomSuffix)
        s6 == AddIf(s5, numericSuffix(username), SCORES.numericSuffix)
        s7 == AddIf(s6, randomLetters(username), SCORES.randomLetters)
    IN  <<s0, s1, s2, s3, s4, s5, s6, s7>>

\* the cap forgotten
calculateBotProbabilityUncapped(profile) == ScoreSteps(profile)[8]

calculateBotProbability(profile) ==
    LET score == ScoreSteps(profile)[8]
    IN  DMin(score, D09)

\* the reasons in the order and by the tests of analyzeBotProbability, on name u
ReasonsOn(profile, u) ==
    LET r1 == PushIf(<<>>, profile.followersCount = 0 /\ profile.followingCount = 0,
                     "No followers or following")
        r2 == PushIf(r1, randomAlphanumeric(u), "Random alphanumeric username")
        r3 == PushIf(r2, manyNumbers(u), "Username contains many numbers")
        r4 == PushIf(r3, botKeywords(u), "Username contains bot-like keywords")
        r5 == PushIf(r4, randomSuffix(u), "Username has random number suffix")
        r6 == PushIf(r5, numericSuffix(u), "Username ends with many numbers")
    IN  PushIf(r6, randomLetters(u), "Username has random letters and numbers")

\* the community exemption forgotten
analyzeBotProbabilityNoExemption(profile) ==
    [probability |-> calculateBotProbability(profile),
     reasons |-> ReasonsOn(profile, toLowerCase(profile.username))]

\* the reasons tested on the username as given, not lower-cased
analyzeBotProbabilityRawName(profile) ==
    IF community(profile.username)
    THEN [probability |-> D0, reasons |-> <<>>]
    ELSE [probability |-> calculateBotProbability(profile),
          reasons |-> ReasonsOn(profile, profile.username)]

analyzeBotProbability(profile) ==
    IF community(profile.username)
    THEN [probability |-> D0, reasons |-> <<>>]
    ELSE
    LET probability == calculateBotProbability(profile)
        r0 == <<>>
        r1 == PushIf(r0, profile.followersCount = 0 /\ profile.followingCount = 0,
                     "No followers or following")
        username == toLowerCase(profile.username)
        r2 == PushIf(r1, randomAlphanumeric(username), "Random alphanumeric username")
        r3 == PushIf(r2, manyNumbers(username), "Username contains many numbers")
        r4 == PushIf(r3, botKeywords(username), "Username contains bot-like keywords")
        r5 == PushIf(r4, randomSuffix(username), "Username has random number suffix")
        r6 == PushIf(r5, numericSuffix(username), "Username ends with many numbers")
        r7 == PushIf(r6, randomLetters(username),
                     "Username has random letters and numbers")
    IN  [probability |-> probability, reasons |-> r7]

----------------------------------------------------------------------------
(* The page.  An element is [kind, cell]: a notification cell            *)
(* ([data-testid="cellInnerDiv"]), an element inside a cell, a warning    *)
(* element (class xbd-warning) injected into a cell, an element outside   *)
(* every cell, or a text node (cell = "none" for the last two).  The      *)
(* content of a cell is                                                   *)
(*   [ownText, links, avatars]                                            *)
(* links:   its a[role="link"] elements in document order, each           *)
(*          [hasHref, href, text];                                        *)
(* avatars: its elements with a data-testid, in document order, each      *)
(*          [testid, imgs, bgs]: the src of its img elements and the      *)
(*          computed background-image of its elements styled with one.    *)
(* A URL is the sequence of its path segments; a background-image value   *)
(* is [fn, quoted, url] for url("..."), or [fn |-> "none"].               *)

\* element.classList.contains('xbd-warning')
HasWarningClass(element) == element.kind = "warning"

\* node instanceof HTMLElement
IsHTMLElement(node) == node.kind # "text"

\* element.closest('[data-testid="cellInnerDiv"]')
closest(element) ==
    IF element.kind \in {"cell", "inner", "warning"}
    THEN [kind |-> "cell", cell |-> element.cell]
    ELSE Null

\* cell.textContent: the text of the descendants in document order
textContent(content) ==
    Concat([i \in DOMAIN content.links |-> content.links[i].text]) \o content.ownText

\* String.prototype.trim
RECURSIVE trim(_)
trim(s) ==
    IF s = <<>> THEN s
    ELSE IF Head(s) = " " THEN trim(Tail(s))
    ELSE IF s[Len(s)] = " " THEN trim(SubSeq(s, 1, Len(s) - 1))
    ELSE s

(* DOMExtractor: src/unnamed/part_000 *)

\* #PATTERNS, all case-insensitive
PINNED_POST(text) == includes(toLowerCase(text), <<"n","e","w"," ","p","i","n","n","e","d"," ","p","o","s","t"," ","i","n">>)
TRENDING(text) == includes(toLowerCase(text), <<"t","r","e","n","d","i","n","g"," ","i","n">>)
COMMUNITY_POST(text) == includes(toLowerCase(text), <<"n","e","w"," ","c","o","m","m","u","n","i","t","y"," ","p","o","s","t"," ","i","n">>)
MULTI_USER(text) == includes(toLowerCase(text), <<"n","e","w"," ","p","o","s","t"," ","n","o","t","i","f","i","c","a","t","i","o","n","s"," ","f","o","r">>)
LIKE(text) == includes(toLowerCase(text), <<"l","i","k","e","d">>)
REPLY(text) == includes(toLowerCase(text), <<"r","e","p","l","i","e","d">>)
REPOST(text) == includes(toLowerCase(text), <<"r","e","p","o","s","t","e","d">>)
FOLLOW(text) == includes(toLowerCase(text), <<"f","o","l","l","o","w","e","d">>)

\* 'UserAvatar-Container-'
AvatarPrefix == <<"U","s","e","r","A","v","a","t","a","r","-","C","o","n","t","a","i","n","e","r","-">>

\* src or background-image contains 'profile_images'
InProfileImages(url) == \E i \in DOMAIN url : url[i] = "profile_images"

\* bgImage.replace(/^url\(['"](.+)['"]\)$/, '$1')
\* (an unquoted url(...) does not match and is returned as it is)
Unwrap(bg) ==
    IF bg.fn = "url" /\ bg.quoted /\ bg.url # <<>> THEN bg.url
    ELSE <<"url(">> \o bg.url \o <<")">>

\* the first index of seq whose element satisfies P, or 0
FirstIndex(seq, P(_)) ==
    IF \E i \in DOMAIN seq : P(seq[i])
    THEN CHOOSE i \in DOMAIN seq : P(seq[i]) /\ \A j \in 1..(i - 1) : ~P(seq[j])
    ELSE 0

extractProfileImage(container) ==
    LET img == FirstIndex(container.imgs, InProfileImages)
        IsProfileBg(bg) == bg.fn # "none" /\ InProfileImages(bg.url)
        bgi == FirstIndex(container.bgs, IsProfileBg)
    IN  IF img # 0 THEN container.imgs[img]
        ELSE IF bgi # 0 THEN Unwrap(container.bgs[bgi])
        ELSE NullString

\* REPOST tested before REPLY
determineInteractionTypeRepostFirst(text) ==
    IF LIKE(text) THEN "Like"
    ELSE IF REPOST(text) THEN "Repost"
    ELSE IF REPLY(text) THEN "Reply"
    ELSE "Follow"

determineInteractionType(text) ==
    IF LIKE(text) THEN "Like"
    ELSE IF REPLY(text) THEN "Reply"
    ELSE IF REPOST(text) THEN "Repost"
    ELSE "Follow"

\* link.getAttribute('href')
getHref(link) == IF link.hasHref THEN link.href ELSE NullString

\* a candidate without image emitted as a partial record
UserOfLinkPartial(content, text, link, now) ==
    LET username == SliceFrom(getHref(link), 2)
        IsContainer(a) == a.testid = AvatarPrefix \o username
        avatarContainer == FirstIndex(content.avatars, IsContainer)
    IN  IF username = <<>> THEN Null
        ELSE IF avatarContainer = 0 THEN Null
        ELSE [username             |-> username,
              displayName          |-> IF trim(link.text) # <<>> THEN trim(link.text)
                                       ELSE username,
              profileImageUrl      |-> extractProfileImage(content.avatars[avatarContainer]),
              followersCount       |-> 0,
              followingCount       |-> 0,
              interactionTimestamp |-> now,
              interactionType      |-> determineInteractionType(text),
              notificationType     |-> IF MULTI_USER(text) THEN "multi_user"
                                       ELSE "user_interaction"]

\* the counts filled in with values other than 0
UserOfLinkWithCounts(content, text, link, now) ==
    LET username == SliceFrom(getHref(link), 2)
        IsContainer(a) == a.testid = AvatarPrefix \o username
        avatarContainer == FirstIndex(content.avatars, IsContainer)
    IN  IF username = <<>> THEN Null
        ELSE IF avatarContainer = 0 THEN Null
        ELSE IF extractProfileImage(content.avatars[avatarContainer]) = NullString THEN Null
        ELSE [username             |-> username,
              displayName          |-> IF trim(link.text) # <<>> THEN trim(link.text)
                                       ELSE username,
              profileImageUrl      |-> extractProfileImage(content.avatars[avatarContainer]),
              followersCount       |-> 100,
              followingCount       |-> 100,
              interactionTimestamp |-> now,
              interactionType      |-> determineInteractionType(text),
              notificationType     |-> IF MULTI_USER(text) THEN "multi_user"
                                       ELSE "user_interaction"]

\* the callback of userLinks.map: one link to a UserProfileData or null
UserOfLink(content, text, link, now) ==
    LET username == SliceFrom(getHref(link), 2)
        IsContainer(a) == a.testid = AvatarPrefix \o username
        avatarContainer == FirstIndex(content.avatars, IsContainer)
        profileImageUrl == extractProfileImage(content.avatars[avatarContainer])
    IN  IF username = <<>> THEN Null
        ELSE IF avatarContainer = 0 THEN Null
        ELSE IF profileImageUrl = NullString THEN Null
        ELSE [username             |-> username,
              displayName          |-> IF trim(link.text) # <<>> THEN trim(link.text)
                                       ELSE username,
              profileImageUrl      |-> profileImageUrl,
              followersCount       |-> 0,
              followingCount       |-> 0,
              interactionTimestamp |-> now,
              interactionType      |-> determineInteractionType(text),
              notificationType     |-> IF MULTI_USER(text) THEN "multi_user"
                                       ELSE "user_interaction"]

\* the filter without its test for '/i/'
IsUserLinkAnyPath(link) ==
    /\ getHref(link) # NullString
    /\ startsWith(getHref(link), <<"/">>)

\* the filter of the user links: href?.startsWith('/') && !href.includes('/i/')
IsUserLink(link) ==
    /\ getHref(link) # NullString
    /\ startsWith(getHref(link), <<"/">>)
    /\ ~includes(getHref(link), <<"/","i","/">>)

NotNull(x) == x # Null

\* { type, text }: a NotificationData without users
Structural(type, text) == [type |-> type, text |-> text, hasUsers |-> FALSE, users |-> <<>>]

\* the structural kinds tested in another order
parseNotificationTrendingFirst(content, now) ==
    LET text == toLowerCase(textContent(content))
        userLinks == SelectSeq(content.links, IsUserLink)
        mapped == [i \in DOMAIN userLinks |-> UserOfLink(content, text, userLinks[i], now)]
        users == SelectSeq(mapped, NotNull)
    IN  IF TRENDING(text) THEN Structural("Trending", text)
        ELSE IF PINNED_POST(text) THEN Structural("PinnedPost", text)
        ELSE IF COMMUNITY_POST(text) THEN Structural("CommunityPost", text)
        ELSE IF Len(userLinks) = 0 THEN Null
        ELSE IF Len(users) = 0 THEN Null
        ELSE [type     |-> IF MULTI_USER(text) THEN "MultiUser" ELSE "UserInteraction",
              text     |-> text,
              hasUsers |-> TRUE,
              users    |-> users]

parseNotification(content, now) ==
    LET text == toLowerCase(textContent(content))
        userLinks == SelectSeq(content.links, IsUserLink)
        mapped == [i \in DOMAIN userLinks |-> UserOfLink(content, text, userLinks[i], now)]
        users == SelectSeq(mapped, NotNull)
    IN  IF PINNED_POST(text) THEN Structural("PinnedPost", text)
        ELSE IF TRENDING(text) THEN Structural("Trending", text)
        ELSE IF COMMUNITY_POST(text) THEN Structural("CommunityPost", text)
        ELSE IF Len(userLinks) = 0 THEN Null
        ELSE IF Len(users) = 0 THEN Null
        ELSE [type     |-> IF MULTI_USER(text) THEN "MultiUser" ELSE "UserInteraction",
              text     |-> text,
              hasUsers |-> TRUE,
              users    |-> users]

\* extractProfileData on an element of page d
extractProfileData(d, element, now) ==
    IF HasWarningClass(element) THEN Null
    ELSE IF closest(element) = Null THEN Null
    ELSE
    LET cell == closest(element)
        notificationData == parseNotification(d[cell.cell], now)
    IN  IF notificationData = Null THEN Null
        ELSE IF ~notificationData.hasUsers THEN Null
        ELSE IF Len(notificationData.users) = 0 THEN Null
        ELSE IF notificationData.type \notin {"UserInteraction", "MultiUser"} THEN Null
        ELSE
        LET userProfile == notificationData.users[1]
        IN  [userProfile EXCEPT !.notificationType =
                IF userProfile.notificationType = "multi_user" THEN "MultiUser"
                ELSE "UserInteraction"]

----------------------------------------------------------------------------
(* BotDetector: src/src/content/index.ts                                   *)
(* An invocation of processNotification is a record                        *)
(*   [node, extracted, profile, analysis, warned, recorded, outcome, pc]   *)
(* pc: "skipped"      returned at line 108 (already processed)             *)
(*     "noprofile"    returned at line 114                                 *)
(*     "awaitAnalyze" suspended at the await of line 117                   *)
(*     "awaitRecord"  suspended at the await of line 120                   *)
(*     "done"         returned after line 130                              *)
(*     "threw"        ended by the exception of a rejected await           *)
(* extracted, warned, recorded: extractProfileData, addBotWarningUI,       *)
(* recordInteraction have been called by this invocation; outcome: how its *)
(* recordInteraction settled ("none" before).                              *)

maxRetries == 10

\* notification.hasAttribute('data-xbot-processed')
hasProcessedAttribute(mk, notification) == mk[notification]

\* the guard of line 107 forgotten
processNotificationNoGuard(d, mk, notification, now) ==
    LET idle == [node |-> notification, extracted |-> TRUE, profile |-> <<>>,
                 analysis |-> <<>>, warned |-> FALSE, recorded |-> FALSE,
                 outcome |-> "none", pc |-> "noprofile", log |-> <<"extract">>]
        profileData == extractProfileData(d, notification, now)
    IN  IF profileData = Null THEN idle
        ELSE [idle EXCEPT !.profile = <<profileData>>,
                          !.analysis = <<analyzeBotProbability(profileData)>>,
                          !.pc = "awaitAnalyze",
                          !.log = <<"extract", "score">>]

\* processNotification from its call to its first suspension or return
\* (profile and analysis are <<>> while unset, <<value>> once set; log is the
\* sequence of the statements executed so far: extract line 111, score 117,
\* decide 118, warn 119, record 120, settled or rejected when the await of
\* line 120 resumes, mark 130)
processNotification(d, mk, notification, now) ==
    LET idle == [node |-> notification, extracted |-> FALSE, profile |-> <<>>,
                 analysis |-> <<>>, warned |-> FALSE, recorded |-> FALSE,
                 outcome |-> "none", pc |-> "skipped", log |-> <<>>]
        profileData == extractProfileData(d, notification, now)
    IN  IF hasProcessedAttribute(mk, notification) THEN idle
        ELSE IF profileData = Null
             THEN [idle EXCEPT !.extracted = TRUE, !.pc = "noprofile",
                               !.log = <<"extract">>]
        ELSE [idle EXCEPT !.extracted = TRUE,
                          !.profile = <<profileData>>,
                          !.analysis = <<analyzeBotProbability(profileData)>>,
                          !.pc = "awaitAnalyze",
                          !.log = <<"extract", "score">>]

\* >= written for >
AtLeastThreshold(analysis) == DLeq(D05, analysis.probability)

\* analysis.probability > 0.5
OverThreshold(analysis) == DLess(D05, analysis.probability)

\* the marker set without awaiting recordInteraction
afterAnalyzeMarkEarly(t) ==
    IF OverThreshold(t.analysis[1])
    THEN [t EXCEPT !.warned = TRUE, !.recorded = TRUE, !.pc = "done",
                   !.log = @ \o <<"decide", "warn", "record", "mark">>]
    ELSE [t EXCEPT !.pc = "done", !.log = @ \o <<"decide", "mark">>]

\* processNotification resumed after line 117, to its next suspension or return
afterAnalyze(t) ==
    IF OverThreshold(t.analysis[1])
    THEN [t EXCEPT !.warned = TRUE, !.recorded = TRUE, !.pc = "awaitRecord",
                   !.log = @ \o <<"decide", "warn", "record">>]
    ELSE [t EXCEPT !.pc = "done", !.log = @ \o <<"decide", "mark">>]

\* processNotification resumed after line 120, by the outcome of recordInteraction
afterRecord(t, outcome) ==
    IF outcome = "rejected"
    THEN [t EXCEPT !.outcome = outcome, !.pc = "threw", !.log = @ \o <<"rejected">>]
    ELSE [t EXCEPT !.outcome = outcome, !.pc = "done",
                   !.log = @ \o <<"settled", "mark">>]

\* notification.setAttribute('data-xbot-processed', 'true') once t has returned normally
MarkIfDone(mk, t) == IF t.pc = "done" THEN [mk EXCEPT ![t.node] = TRUE] ELSE mk

\* recordInteraction is asynchronous and may fail
RecordOutcomes == {"resolved", "rejected"}

RECURSIVE scanExistingNotifications(_, _, _, _)
\* notifications.forEach(processNotification) over the cells found, in order
scanExistingNotifications(d, mk, notifications, now) ==
    IF notifications = <<>> THEN EmptyBag
    ELSE SetToBag({processNotification(d, mk, Head(notifications), now)})
         (+) scanExistingNotifications(d, mk, Tail(notifications), now)

----------------------------------------------------------------------------
(* Bounds and inputs *)

\* the observer stops delivering nodes once processNotification has been
\* invoked MaxTasks times
MaxTasks == 3
\* a username is at most MaxChunks of NameChunks
MaxChunks == 3
\* the own text of a cell is at most MaxPhrases of TextChunks
MaxPhrases == 2
\* a cell has at most MaxLinks links
MaxLinks == 2

Cells == {"c1", "c2"}
CellOrder == <<"c1", "c2">>

Element(kind, cell) == [kind |-> kind, cell |-> cell]
HTMLElements ==
    {Element(k, c) : k \in {"cell", "inner", "warning"}, c \in Cells}
        \cup {Element("outside", "none")}
Nodes == HTMLElements \cup {Element("text", "none")}

\* the sequences of at most n elements of S
SeqsUpTo(S, n) == UNION {[1..k -> S] : k \in 0..n}

NameChunks == {<<"d","o","e">>, <<"b","o","t">>, <<"s","p","a","m">>, <<"j","a","n","e">>, <<"_">>, <<"1","2","3","4">>, <<"5">>, <<"A","B">>, <<"i","/","c","o","m","m","u","n","i","t","i","e","s","/">>}
Usernames == {Concat(cs) : cs \in SeqsUpTo(NameChunks, MaxChunks)}
FollowerCounts == {0, 1, 500}
FollowingCounts == {0, 300}
Profiles ==
    [username : Usernames, followersCount : FollowerCounts,
     followingCount : FollowingCounts]

U_spam1234 == <<"s","p","a","m","1","2","3","4">>
U_edge == <<"1","2","3","4","_">>
U_bot == <<"b","o","t">>
U_jane == <<"j","a","n","e">>
U_community == <<"i","/","c","o","m","m","u","n","i","t","i","e","s","/","1">>
U_spam12345 == <<"s","p","a","m","1","2","3","4","5">>
U_jane_doe == <<"j","a","n","e","_","d","o","e">>

ImgUrl(name) == <<"pbs.twimg.com", "profile_images", name>>
BannerUrl(name) == <<"pbs.twimg.com", "profile_banners", name>>
Bg(quoted, url) == [fn |-> "url", quoted |-> quoted, url |-> url]
BgNone == [fn |-> "none", quoted |-> FALSE, url |-> <<>>]

Link(href, text) == [hasHref |-> TRUE, href |-> href, text |-> text]
NoHrefLink == [hasHref |-> FALSE, href |-> <<>>, text |-> <<>>]
Avatar(username, imgs, bgs) ==
    [testid |-> AvatarPrefix \o username, imgs |-> imgs, bgs |-> bgs]
Content(ownText, links, avatars) ==
    [ownText |-> ownText, links |-> links, avatars |-> avatars]

UserLink(u, text) == Link(<<"/">> \o u, text)
ImgAvatar(u) == Avatar(u, <<ImgUrl("a.jpg")>>, <<>>)
BgAvatar(u) == Avatar(u, <<BannerUrl("b.jpg")>>, <<BgNone, Bg(TRUE, ImgUrl("c.jpg"))>>)
BareAvatar(u) == Avatar(u, <<BannerUrl("b.jpg")>>, <<BgNone>>)

T_liked == <<" ","l","i","k","e","d"," ","y","o","u","r"," ","p","o","s","t">>
T_followed == <<" ","f","o","l","l","o","w","e","d"," ","y","o","u">>
T_trending == <<"t","r","e","n","d","i","n","g"," ","i","n"," ","C","a","n","a","d","a">>
T_multi == <<"n","e","w"," ","p","o","s","t"," ","n","o","t","i","f","i","c","a","t","i","o","n","s"," ","f","o","r"," ">>
T_name == <<"A","l"," ">>
T_reposted_replied == <<" ","r","e","p","o","s","t","e","d"," ","a","n","d"," ","r","e","p","l","i","e","d">>

\* the pages of the pipeline: two cells each
Pages ==
    { \* a spam-like account liked; an account scoring exactly 0.5 followed
      [c1 |-> Content(T_liked, <<UserLink(U_spam1234, T_name)>>, <<ImgAvatar(U_spam1234)>>),
       c2 |-> Content(T_followed, <<UserLink(U_edge, <<>>)>>, <<BgAvatar(U_edge)>>)],
      \* a trending cell with a resolvable link; a multi-user cell
      [c1 |-> Content(T_trending, <<UserLink(U_spam1234, T_name)>>, <<ImgAvatar(U_spam1234)>>),
       c2 |-> Content(T_multi, <<UserLink(U_jane, T_name), UserLink(U_spam1234, <<>>)>>,
                      <<ImgAvatar(U_jane), BgAvatar(U_spam1234)>>)],
      \* a cell without links; a cell whose only link has no image
      [c1 |-> Content(T_liked, <<>>, <<>>),
       c2 |-> Content(T_liked, <<UserLink(U_bot, T_name)>>, <<BareAvatar(U_bot)>>)],
      \* twice the same account, scoring 0.6
      [c1 |-> Content(T_liked, <<UserLink(U_bot, T_name)>>, <<ImgAvatar(U_bot)>>),
       c2 |-> Content(T_followed, <<UserLink(U_bot, T_name)>>, <<BgAvatar(U_bot)>>)],
      \* a link to a community, with an avatar container of its own; a
      \* cell without links
      [c1 |-> Content(T_liked, <<UserLink(U_community, T_name)>>, <<ImgAvatar(U_community)>>),
       c2 |-> Content(T_followed, <<>>, <<>>)] }

\* inputs of extraction: every text with a few link sequences, and a few
\* texts with every link sequence
TextChunks == {<<"n","e","w"," ","p","i","n","n","e","d"," ","p","o","s","t"," ","i","n"," ">>, <<"t","r","e","n","d","i","n","g"," ","i","n"," ">>, <<"n","e","w"," ","c","o","m","m","u","n","i","t","y"," ","p","o","s","t"," ","i","n"," ">>, <<"n","e","w"," ","p","o","s","t"," ","n","o","t","i","f","i","c","a","t","i","o","n","s"," ","f","o","r"," ">>, <<"l","i","k","e","d"," ">>,
               <<"r","e","p","l","i","e","d"," ">>, <<"r","e","p","o","s","t","e","d"," ">>, <<"T","r","e","n","d","i","n","g"," ","I","n"," ">>, <<"y","o","u","r"," ","p","o","s","t"," ">>}
Texts == {Concat(cs) : cs \in SeqsUpTo(TextChunks, MaxPhrases)}
BaseTexts == {T_followed, T_multi, T_multi \o T_liked, T_reposted_replied}
LinkChoices == {UserLink(U_spam1234, T_name), UserLink(U_jane, <<>>),
                UserLink(U_community, T_name), Link(<<"/">>, T_name), NoHrefLink}
LinkSeqs == SeqsUpTo(LinkChoices, MaxLinks)
BaseLinkSeqs == {<<>>, <<UserLink(U_spam1234, T_name)>>}
AvatarChoices == {<<ImgAvatar(U_spam1234), BgAvatar(U_jane), ImgAvatar(U_community)>>,
                  <<ImgAvatar(U_spam1234), BareAvatar(U_jane)>>,
                  <<ImgAvatar(U_spam1234)>>}
Contents ==
    {Content(tx, ls, av) : tx \in Texts, ls \in BaseLinkSeqs, av \in AvatarChoices}
        \cup {Content(tx, ls, av) : tx \in BaseTexts, ls \in LinkSeqs, av \in AvatarChoices}
EmptyContent == Content(<<>>, <<>>, <<>>)

NoMarker == [e \in HTMLElements |-> FALSE]

----------------------------------------------------------------------------
(* The pipeline *)

NoResult == [op |-> "none", value |-> Null]

\* The state at construction.  The page is arbitrary: the feed may or may
\* not be rendered yet, and a cell may already carry data-xbot-processed
\* (set by an earlier instance of the content script on the same document).
\* The content of the cells does not change afterwards.
Init ==
    /\ dom \in Pages
    /\ marker \in {NoMarker, [NoMarker EXCEPT ![Element("cell", "c1")] = TRUE]}
    /\ feedPresent \in BOOLEAN
    /\ initPc = "check"
    /\ retryCount = 0
    /\ observer = FALSE
    /\ tasks = EmptyBag
    /\ clock = 1
    /\ arg = Null
    /\ ret = NoResult

\* the page renders the notifications feed
FeedAppears ==
    /\ ~feedPresent
    /\ feedPresent' = TRUE
    /\ UNCHANGED <<dom, marker, initPc, retryCount, observer, tasks, clock, arg, ret>>

\* waitForNotificationsFeed finds the feed; init installs the observer and
\* scans the cells rendered so far
FeedFound(present) ==
    /\ initPc = "check"
    /\ feedPresent
    /\ initPc' = "started"
    /\ observer' = TRUE
    /\ LET IsPresent(c) == c \in present
           notifications == [i \in DOMAIN SelectSeq(CellOrder, IsPresent) |->
                                Element("cell", SelectSeq(CellOrder, IsPresent)[i])]
       IN  tasks' = scanExistingNotifications(dom, marker, notifications, clock)
    /\ UNCHANGED <<dom, marker, feedPresent, retryCount, clock, arg, ret>>

\* a retry that is not counted
FeedRetryNotCounted ==
    /\ initPc = "check"
    /\ ~feedPresent
    /\ retryCount < maxRetries
    /\ initPc' = "sleeping"
    /\ UNCHANGED <<dom, marker, feedPresent, retryCount, observer, tasks, clock, arg, ret>>

\* waitForNotificationsFeed does not find the feed and retries in 1 s
FeedRetry ==
    /\ initPc = "check"
    /\ ~feedPresent
    /\ retryCount < maxRetries
    /\ retryCount' = retryCount + 1
    /\ initPc' = "sleeping"
    /\ UNCHANGED <<dom, marker, feedPresent, observer, tasks, clock, arg, ret>>

\* waitForNotificationsFeed gives up; init returns
FeedGiveUp ==
    /\ initPc = "check"
    /\ ~feedPresent
    /\ retryCount >= maxRetries
    /\ initPc' = "notfound"
    /\ UNCHANGED <<dom, marker, feedPresent, retryCount, observer, tasks, clock, arg, ret>>

\* the 1 s timer of waitForNotificationsFeed fires
RetryTimer ==
    /\ initPc = "sleeping"
    /\ initPc' = "check"
    /\ UNCHANGED <<dom, marker, feedPresent, retryCount, observer, tasks, clock, arg, ret>>

\* some invocation has surfaced a warning in the cell
WarningIn(cell) ==
    \E t \in BagToSet(tasks) : t.warned /\ t.node.cell = cell

\* the observer callback on one added node
ObserverCallback(mk, ts, d, node, now) ==
    IF ~IsHTMLElement(node) THEN ts
    ELSE IF HasWarningClass(node) \/ hasProcessedAttribute(mk, node) THEN ts
    ELSE ts (+) SetToBag({processNotification(d, mk, node, now)})

\* the page adds a node under the feed
Mutation(node) ==
    /\ observer
    /\ BagCardinality(tasks) < MaxTasks
    /\ node.kind = "warning" => WarningIn(node.cell)
    /\ tasks' = ObserverCallback(marker, tasks, dom, node, clock)
    /\ UNCHANGED <<dom, marker, feedPresent, initPc, retryCount, observer, clock, arg, ret>>

Replace(ts, old, new) == (ts (-) SetToBag({old})) (+) SetToBag({new})

\* the await of analyzeBotProbability resumes invocation t
ResumeAnalyze(t) ==
    /\ t.pc = "awaitAnalyze"
    /\ tasks' = Replace(tasks, t, afterAnalyze(t))
    /\ marker' = MarkIfDone(marker, afterAnalyze(t))
    /\ UNCHANGED <<dom, feedPresent, initPc, retryCount, observer, clock, arg, ret>>

\* recordInteraction settles and resumes invocation t
RecordSettles(t, outcome) ==
    /\ t.pc = "awaitRecord"
    /\ tasks' = Replace(tasks, t, afterRecord(t, outcome))
    /\ marker' = MarkIfDone(marker, afterRecord(t, outcome))
    /\ UNCHANGED <<dom, feedPresent, initPc, retryCount, observer, clock, arg, ret>>

Next ==
    \/ FeedAppears
    \/ \E present \in SUBSET Cells : FeedFound(present)
    \/ FeedRetry
    \/ FeedGiveUp
    \/ RetryTimer
    \/ \E node \in Nodes : Mutation(node)
    \/ \E t \in BagToSet(tasks) : ResumeAnalyze(t)
    \/ \E t \in BagToSet(tasks) : \E outcome \in RecordOutcomes : RecordSettles(t, outcome)

Spec == Init /\ [][Next]_vars

----------------------------------------------------------------------------
(* Scoring as a function: any profile, scored once *)

InitScore ==
    /\ dom \in {[c \in Cells |-> EmptyContent]}
    /\ marker = NoMarker
    /\ feedPresent = FALSE
    /\ initPc = "check"
    /\ retryCount = 0
    /\ observer = FALSE
    /\ tasks = EmptyBag
    /\ clock = 1
    /\ arg \in Profiles
    /\ ret = NoResult

Analyze ==
    /\ ret.op = "none"
    /\ ret' = [op |-> "analyze", value |-> analyzeBotProbability(arg)]
    /\ UNCHANGED <<dom, marker, feedPresent, initPc, retryCount, observer, tasks, clock, arg>>

Calculate ==
    /\ ret.op = "none"
    /\ ret' = [op |-> "calculate",
               value |-> [probability |-> calculateBotProbability(arg), reasons |-> <<>>]]
    /\ UNCHANGED <<dom, marker, feedPresent, initPc, retryCount, observer, tasks, clock, arg>>

NextScore == Analyze \/ Calculate

SpecScore == InitScore /\ [][NextScore]_vars

----------------------------------------------------------------------------
(* Extraction as a function: any cell content, any element of it *)

InitExtract ==
    /\ dom \in {[c1 |-> content, c2 |-> EmptyContent] : content \in Contents}
    /\ marker = NoMarker
    /\ feedPresent = FALSE
    /\ initPc = "check"
    /\ retryCount = 0
    /\ observer = FALSE
    /\ tasks = EmptyBag
    /\ clock = 1
    /\ arg \in {Element("cell", "c1"), Element("inner", "c1"),
                Element("warning", "c1"), Element("outside", "none")}
    /\ ret = NoResult

\* #parseNotification on the cell
Parse ==
    /\ ret.op = "none"
    /\ ret' = [op |-> "parse", value |-> parseNotification(dom["c1"], clock)]
    /\ UNCHANGED <<dom, marker, feedPresent, initPc, retryCount, observer, tasks, clock, arg>>

\* extractProfileData on the element
Extract ==
    /\ ret.op = "none"
    /\ ret' = [op |-> "extract", value |-> extractProfileData(dom, arg, clock)]
    /\ UNCHANGED <<dom, marker, feedPresent, initPc, retryCount, observer, tasks, clock, arg>>

\* processNotification on the element, up to its first suspension
Offer ==
    /\ ret.op = "none"
    /\ ret' = [op |-> "offer", value |-> Null]
    /\ tasks' = SetToBag({processNotification(dom, marker, arg, clock)})
    /\ UNCHANGED <<dom, marker, feedPresent, initPc, retryCount, observer, clock, arg>>

NextExtract == Parse \/ Extract \/ Offer

SpecExtract == InitExtract /\ [][NextExtract]_vars

----------------------------------------------------------------------------
(* Properties of the pipeline (specification Spec) *)

RECURSIVE SumCopies(_, _)
\* the number of elements of bag b that are in set S
SumCopies(b, S) ==
    IF S = {} THEN 0
    ELSE LET x == CHOOSE y \in S : TRUE
         IN  CopiesIn(x, b) + SumCopies(b, S \ {x})

Invocations == BagToSet(tasks)
WarningsOf(cell) ==
    SumCopies(tasks, {t \in Invocations : t.warned /\ t.node.cell = cell})
RecordsOf(cell) ==
    SumCopies(tasks, {t \in Invocations : t.recorded /\ t.node.cell = cell})

\* C1: for every notification cell, surface-warning and record-interaction
\* are each performed at most once, whatever the offers of the cell and of
\* the elements inside it and however they interleave.
C1_AtMostOncePerContainer ==
    \A c \in Cells : WarningsOf(c) <= 1 /\ RecordsOf(c) <= 1

\* the invocations that a step starts
Started ==
    {t \in BagToSet(tasks') :
        /\ CopiesIn(t, tasks') > CopiesIn(t, tasks)
        /\ t.pc \in {"skipped", "noprofile", "awaitAnalyze"}}

\* C2: an invocation of processNotification on an element whose processed
\* marker is set extracts nothing, scores nothing, surfaces no warning,
\* records nothing, and leaves the marker set.
C2_IdempotentRepeat ==
    [][\A e \in HTMLElements : marker[e] =>
          /\ marker'[e]
          /\ \A t \in Started : t.node = e =>
                /\ t.pc = "skipped"
                /\ ~t.extracted
                /\ t.profile = <<>>
                /\ t.analysis = <<>>
                /\ ~t.warned
                /\ ~t.recorded]_vars

C2_Witness ==
    \E t \in Invocations : t.pc = "skipped" /\ marker[t.node]

\* C3: every element offered to the pipeline ends with its processed marker
\* set: once an invocation of processNotification has ended, whether or not
\* extraction produced a record, the threshold was exceeded or an error
\* occurred, the marker of its element is set.
C3_EveryOfferEndsMarked ==
    \A t \in Invocations : t.pc \in {"noprofile", "done", "threw"} => marker[t.node]

\* C4: surface-warning and record-interaction are both invoked if the
\* probability is greater than 0.5 and neither is invoked otherwise; an
\* invocation whose probability is at most 0.5 (0.5 included) ends with the
\* marker set.
C4_ThresholdPolicy ==
    \A t \in Invocations :
        /\ t.pc \in {"skipped", "noprofile", "awaitAnalyze"} => ~t.warned /\ ~t.recorded
        /\ t.pc \in {"awaitRecord", "done", "threw"} =>
              LET p == t.analysis[1].probability
              IN  /\ DLess(D05, p) => t.warned /\ t.recorded
                  /\ DLeq(p, D05) => /\ ~t.warned
                                     /\ ~t.recorded
                                     /\ t.pc = "done"
                                     /\ marker[t.node]

C4_Witness ==
    \E t \in Invocations :
        /\ t.pc = "done"
        /\ t.analysis[1].probability = D05
        /\ ~t.warned
        /\ ~t.recorded
        /\ marker[t.node]

\* C5: when recordInteraction rejects, the invocation still returns normally
\* (the failure does not leave processNotification) and the marker of its
\* element is set.
C5_RejectionContained ==
    \A t \in Invocations : t.outcome = "rejected" => t.pc = "done" /\ marker[t.node]

----------------------------------------------------------------------------
(* Properties of scoring (specification SpecScore) *)

\* C6: the probability returned by calculateBotProbability and by
\* analyzeBotProbability is at least 0 and at most 0.9.
C6_ProbabilityBounded ==
    ret.op \in {"analyze", "calculate"} =>
        /\ DLeq(D0, ret.value.probability)
        /\ DLeq(ret.value.probability, D09)

C6_Witness ==
    /\ ret.op = "calculate"
    /\ DLess(D09, ScoreSteps(arg)[8])
    /\ ret.value.probability = D09

CommunityPrefix == <<"i","/","c","o","m","m","u","n","i","t","i","e","s","/">>
IsCommunityName(u) ==
    Len(u) >= Len(CommunityPrefix) /\ SubSeq(u, 1, Len(CommunityPrefix)) = CommunityPrefix

\* C7: for a username that begins with i/communities/ the analysis is
\* probability 0 with no reasons, whatever the counts and whatever
\* heuristics the username matches.
C7_CommunityExempt ==
    (ret.op = "analyze" /\ IsCommunityName(arg.username)) =>
        ret.value = [probability |-> D0, reasons |-> <<>>]

C7_Witness ==
    /\ ret.op = "analyze"
    /\ IsCommunityName(arg.username)
    /\ arg.followersCount = 0
    /\ arg.followingCount = 0
    /\ manyNumbers(toLowerCase(arg.username))
    /\ ret.value.reasons = <<>>

\* the reason of each scoring condition, in the order of the tests
ReasonTable ==
    <<"No followers or following",
      "Random alphanumeric username",
      "Username contains many numbers",
      "Username contains bot-like keywords",
      "Username has random number suffix",
      "Username ends with many numbers",
      "Username has random letters and numbers">>

\* the conditions whose weight calculateBotProbability added, in order
AddedConditions(profile) ==
    LET steps == ScoreSteps(profile)
        Added(k) == steps[k + 1] # steps[k]
    IN  SelectSeq(<<1, 2, 3, 4, 5, 6, 7>>, Added)

\* C8: for a username that is not exempt, the reasons are exactly the
\* reasons of the conditions whose weight was added to the score, one each,
\* in the order of the tests.
C8_ReasonsMirrorScore ==
    (ret.op = "analyze" /\ ~IsCommunityName(arg.username)) =>
        LET added == AddedConditions(arg)
        IN  ret.value.reasons = [i \in DOMAIN added |-> ReasonTable[added[i]]]

C8_Witness ==
    /\ ret.op = "analyze"
    /\ ~IsCommunityName(arg.username)
    /\ Len(ret.value.reasons) >= 4
    /\ Len(AddedConditions(arg)) = Len(ret.value.reasons)

----------------------------------------------------------------------------
(* Properties of extraction (specification SpecExtract) *)

CellText == toLowerCase(textContent(dom["c1"]))
IsStructural(text) == PINNED_POST(text) \/ TRENDING(text) \/ COMMUNITY_POST(text)
FirstStructuralKind(text) ==
    IF PINNED_POST(text) THEN "PinnedPost"
    ELSE IF TRENDING(text) THEN "Trending"
    ELSE "CommunityPost"

\* the links of the cell that resolve to a user record
ResolvableLinks ==
    SelectSeq(dom["c1"].links,
              LAMBDA l : IsUserLink(l) /\ UserOfLink(dom["c1"], CellText, l, clock) # Null)

\* C9: a cell whose text matches a structural pattern has the kind of the
\* first of PinnedPost, Trending, CommunityPost that matches, yields no user
\* record and is not scored, also when it holds resolvable user links.
C9_KindPriority ==
    IsStructural(CellText) =>
        /\ ret.op = "parse" =>
              /\ ret.value.type = FirstStructuralKind(CellText)
              /\ ret.value.users = <<>>
        /\ ret.op = "extract" => ret.value = Null
        /\ ret.op = "offer" =>
              \A t \in Invocations : t.profile = <<>> /\ t.analysis = <<>> /\ ~t.warned

C9_Witness ==
    /\ ret.op = "parse"
    /\ PINNED_POST(CellText)
    /\ TRENDING(CellText)
    /\ Len(ResolvableLinks) >= 1
    /\ ret.value.type = "PinnedPost"

\* the user records that extractProfileData returned
ReturnedRecords == IF ret.value = Null THEN <<>> ELSE <<ret.value>>

\* C10: for a cell whose text matches the multi-user pattern and that holds
\* n resolvable user links, extraction returns kind MultiUser and n user
\* records, one per link in link order.
C10_OneRecordPerLink ==
    (/\ ret.op = "extract"
     /\ arg.kind = "cell"
     /\ MULTI_USER(CellText)
     /\ ~IsStructural(CellText)
     /\ Len(ResolvableLinks) >= 1) =>
        /\ Len(ReturnedRecords) = Len(ResolvableLinks)
        /\ \A i \in DOMAIN ReturnedRecords :
              /\ ReturnedRecords[i].notificationType = "MultiUser"
              /\ ReturnedRecords[i].username = SliceFrom(ResolvableLinks[i].href, 2)

\* a link of the cell is a candidate with a username, an avatar container
\* and an image or background image among the profile images
HasProfileImage(container) ==
    \/ \E i \in DOMAIN container.imgs : InProfileImages(container.imgs[i])
    \/ \E i \in DOMAIN container.bgs :
          container.bgs[i].fn # "none" /\ InProfileImages(container.bgs[i].url)
CandidateResolves(link) ==
    /\ link.hasHref
    /\ Len(link.href) >= 2
    /\ link.href[1] = "/"
    /\ ~includes(link.href, <<"/","i","/">>)
    /\ LET name == SubSeq(link.href, 2, Len(link.href))
           Named(a) == a.testid = AvatarPrefix \o name
           first == FirstIndex(dom["c1"].avatars, Named)
       IN  first # 0 /\ HasProfileImage(dom["c1"].avatars[first])
ResolvingLinks == SelectSeq(dom["c1"].links, CandidateResolves)

\* C11: a candidate link with an empty username, without avatar container or
\* without profile image produces no record: the records built are those of
\* the other links, in order; when no link produces a record, extraction
\* returns nothing, and the cell is not scored and has no side effect.
C11_UnresolvableDropped ==
    ~IsStructural(CellText) =>
        /\ (ret.op = "parse" /\ ret.value # Null) =>
              /\ Len(ret.value.users) = Len(ResolvingLinks)
              /\ \A i \in DOMAIN ret.value.users :
                    /\ ret.value.users[i].username = SliceFrom(ResolvingLinks[i].href, 2)
                    /\ ret.value.users[i].profileImageUrl # NullString
        /\ Len(ResolvingLinks) = 0 =>
              /\ ret.op \in {"parse", "extract"} => ret.value = Null
              /\ ret.op = "offer" =>
                    \A t \in Invocations :
                        /\ t.pc \in {"skipped", "noprofile"}
                        /\ t.analysis = <<>>
                        /\ ~t.warned
                        /\ ~t.recorded

C11_Witness ==
    /\ ret.op = "offer"
    /\ arg.kind = "cell"
    /\ ~IsStructural(CellText)
    /\ \E i \in DOMAIN dom["c1"].links :
          /\ IsUserLink(dom["c1"].links[i])
          /\ \E a \in Range(dom["c1"].avatars) :
                /\ a.testid = AvatarPrefix \o SliceFrom(dom["c1"].links[i].href, 2)
                /\ ~HasProfileImage(a)
    /\ Len(ResolvingLinks) = 0
    /\ \E t \in Invocations : t.pc = "noprofile"

-----------------------------------------------------------------------------
(* The profile store.  Timestamps are in seconds; the store is the profiles
   map kept under chrome.storage.local, from usernames to the timestamp of
   the stored profile. *)

DaySeconds == 24 * 60 * 60
StoreNames == {"old", "recent", "testuser"}
StoreAges == {0, DaySeconds, 30 * DaySeconds, 30 * DaySeconds + 1, 31 * DaySeconds}
RetentionChoices == {DaySeconds, 7 * DaySeconds, 30 * DaySeconds}
NowChoices == {40 * DaySeconds, 100 * DaySeconds}
ProfileMaps(now) ==
    UNION {[names -> {now - a : a \in StoreAges}] : names \in SUBSET StoreNames}

\* a pruning that writes the map back as it was read
pruneKeepsAll(profiles, retention, now) == profiles

\* StorageService.pruneOldProfiles: the map written back keeps the entries
\* whose age is within the retention period
pruneOldProfiles(profiles, retention, now) ==
    LET kept == {u \in DOMAIN profiles : now - profiles[u] <= retention}
    IN  [u \in kept |-> profiles[u]]

InitStorage ==
    /\ clock \in NowChoices
    /\ \E r \in RetentionChoices, m \in ProfileMaps(clock) :
          arg = [profiles |-> m, retention |-> r]
    /\ ret = NoResult
    /\ dom = [c \in Cells |-> EmptyContent]
    /\ marker = NoMarker
    /\ feedPresent = FALSE
    /\ initPc = "check"
    /\ retryCount = 0
    /\ observer = FALSE
    /\ tasks = EmptyBag

Prune ==
    /\ ret.op = "none"
    /\ ret' = [op |-> "prune",
               value |-> pruneOldProfiles(arg.profiles, arg.retention, clock)]
    /\ UNCHANGED <<dom, marker, feedPresent, initPc, retryCount, observer,
                   tasks, clock, arg>>

NextStorage == Prune

SpecStorage == InitStorage /\ [][NextStorage]_vars

\* C12: the profiles map that pruneOldProfiles writes back holds no entry
\* whose interactionTimestamp is older than the retention period, and holds
\* only entries that were stored; an entry 31 days old is removed.
C12_PruneDropsOld ==
    ret.op = "prune" =>
        /\ DOMAIN ret.value \subseteq DOMAIN arg.profiles
        /\ \A u \in DOMAIN ret.value :
              /\ ret.value[u] = arg.profiles[u]
              /\ clock - ret.value[u] <= arg.retention
        /\ \A u \in DOMAIN arg.profiles :
              clock - arg.profiles[u] >= 31 * DaySeconds => u \notin DOMAIN ret.value

C12_Witness ==
    /\ ret.op = "prune"
    /\ "old" \in DOMAIN arg.profiles
    /\ clock - arg.profiles["old"] = 31 * DaySeconds
    /\ "old" \notin DOMAIN ret.value
    /\ "recent" \in DOMAIN ret.value
    /\ clock - arg.profiles["recent"] = DaySeconds

-----------------------------------------------------------------------------
(* Further properties of scoring (specification SpecScore) *)

\* the conditions of the score that the profile matches, in the order of the
\* tests: 1 noFollowers, 2..7 the username heuristics on the lower-cased name
MatchedConditions(profile) ==
    LET u == toLowerCase(profile.username)
        Matches(k) ==
            CASE k = 1 -> profile.followersCount = 0 /\ profile.followingCount = 0
              [] k = 2 -> randomAlphanumeric(u)
              [] k = 3 -> manyNumbers(u)
              [] k = 4 -> botKeywords(u)
              [] k = 5 -> randomSuffix(u)
              [] k = 6 -> numericSuffix(u)
              [] k = 7 -> randomLetters(u)
    IN  SelectSeq(<<1, 2, 3, 4, 5, 6, 7>>, Matches)

WeightTable ==
    <<SCORES.noFollowers, SCORES.randomAlphanumeric, SCORES.manyNumbers,
      SCORES.botKeywords, SCORES.randomSuffix, SCORES.numericSuffix,
      SCORES.randomLetters>>

\* the weights' tenths: 0.3, 0.3, 0.2, 0.3, 0.2, 0.2, 0.2
TenthsTable == <<3, 3, 2, 3, 2, 2, 2>>

RECURSIVE DoubleSum(_, _)
DoubleSum(conds, acc) ==
    IF conds = <<>> THEN acc
    ELSE DoubleSum(Tail(conds), DAdd(acc, WeightTable[Head(conds)]))

RECURSIVE TenthsSum(_)
TenthsSum(conds) ==
    IF conds = <<>> THEN 0 ELSE TenthsTable[Head(conds)] + TenthsSum(Tail(conds))

\* the double written k/10, for k in 0..9
DecimalTenths(k) ==
    CASE k = 0 -> D0
      [] k = 1 -> [hi |-> 13421772, lo |-> 214748365]
      [] k = 2 -> D02
      [] k = 3 -> D03
      [] k = 4 -> [hi |-> 53687091, lo |-> 53687092]
      [] k = 5 -> D05
      [] k = 6 -> [hi |-> 80530636, lo |-> 214748364]
      [] k = 7 -> [hi |-> 93952409, lo |-> 161061272]
      [] k = 8 -> [hi |-> 107374182, lo |-> 107374184]
      [] k = 9 -> D09

MinInt(a, b) == IF a < b THEN a ELSE b

\* C13 as stated: for a username that is not exempt the probability is the
\* number min(S, 0.9), S the sum of the weights of the matched conditions
\* (0.6 for weights 0.2, 0.2, 0.2; 0.9 for weights 0.3, 0.2, 0.2, 0.2).
C13_DecimalSum ==
    (ret.op \in {"analyze", "calculate"} /\ ~IsCommunityName(arg.username)) =>
        ret.value.probability =
            DecimalTenths(MinInt(TenthsSum(MatchedConditions(arg)), 9))

\* C13: for a username that is not exempt the probability is min(S, 0.9),
\* S the sum of the weights of all matched conditions added one after the
\* other in double arithmetic in the order of the tests, every matching
\* condition contributing; spam12345 with no followers and no following
\* gets 0.9, jane_doe with 500 and 300 gets 0 and no reasons.
C13_AdditiveClamped ==
    /\ (ret.op \in {"analyze", "calculate"} /\ ~IsCommunityName(arg.username)) =>
          ret.value.probability = DMin(DoubleSum(MatchedConditions(arg), D0), D09)
    /\ (ret.op \in {"analyze", "calculate"} /\ arg.username = U_spam12345
           /\ arg.followersCount = 0 /\ arg.followingCount = 0) =>
          ret.value.probability = D09
    /\ (ret.op = "analyze" /\ arg.username = U_jane_doe
           /\ arg.followersCount = 500 /\ arg.followingCount = 300) =>
          ret.value = [probability |-> D0, reasons |-> <<>>]

C13_Witness ==
    /\ ret.op = "analyze"
    /\ ~IsCommunityName(arg.username)
    /\ Len(MatchedConditions(arg)) = 4
    /\ TenthsSum(MatchedConditions(arg)) = 9
    /\ DLess(ret.value.probability, D09)
    /\ DLess(DecimalTenths(8), ret.value.probability)

-----------------------------------------------------------------------------
(* Further properties of the coordinator (specification Spec) *)

\* what is left of feed discovery: the look-ups and timers still possible
DiscoveryRank ==
    CASE initPc = "check"    -> 2 * (maxRetries - retryCount) + 1
      [] initPc = "sleeping" -> 2 * (maxRetries - retryCount) + 2
      [] OTHER               -> 0

DiscoveryBounded ==
    /\ retryCount \in 0..maxRetries
    /\ DiscoveryRank >= 0
    /\ initPc = "notfound" => retryCount = maxRetries
    /\ initPc # "started" => (~observer /\ tasks = EmptyBag)

DiscoveryStep ==
    /\ (initPc' # initPc \/ retryCount' # retryCount) =>
          /\ initPc \in {"check", "sleeping"}
          /\ DiscoveryRank' < DiscoveryRank
    /\ initPc' # "started" => (marker' = marker /\ tasks' = tasks)
    /\ initPc = "notfound" =>
          (initPc' = "notfound" /\ retryCount' = retryCount /\ ~observer')

\* C14: feed discovery ends: each of its steps lowers a rank that starts at
\* 2 * maxRetries + 1, the feed is looked up after at most maxRetries (10)
\* delayed retries and then reported not found; once not found, discovery
\* is not retried, no observer is installed and no cell is scanned or
\* processed; no cell is processed before discovery has returned a feed.
C14_BoundedDiscovery == [](DiscoveryBounded) /\ [][DiscoveryStep]_vars

C14_Witness ==
    /\ initPc = "notfound"
    /\ retryCount = maxRetries
    /\ feedPresent
    /\ ~observer
    /\ tasks = EmptyBag

\* the position of event e in the log, 0 when it did not happen
At(log, e) ==
    IF \E i \in DOMAIN log : log[i] = e
    THEN CHOOSE i \in DOMAIN log : log[i] = e
    ELSE 0

\* event a happened, and before event b
Before(log, a, b) == At(log, a) # 0 /\ At(log, a) < At(log, b)

OrderedLog(t) ==
    /\ \A i, j \in DOMAIN t.log : t.log[i] = t.log[j] => i = j
    /\ At(t.log, "score") # 0   => Before(t.log, "extract", "score")
    /\ At(t.log, "decide") # 0  => Before(t.log, "score", "decide")
    /\ At(t.log, "warn") # 0    => Before(t.log, "decide", "warn")
    /\ At(t.log, "record") # 0  => Before(t.log, "warn", "record")
    /\ At(t.log, "settled") # 0 => Before(t.log, "record", "settled")
    /\ At(t.log, "mark") # 0 =>
          /\ Before(t.log, "decide", "mark")
          /\ At(t.log, "mark") = Len(t.log)
          /\ At(t.log, "warn") # 0 =>
                (Before(t.log, "warn", "mark") /\ Before(t.log, "settled", "mark"))
    /\ t.extracted <=> At(t.log, "extract") # 0
    /\ (t.analysis # <<>>) <=> At(t.log, "score") # 0
    /\ t.warned <=> At(t.log, "warn") # 0
    /\ t.recorded <=> At(t.log, "record") # 0

\* a step sets a marker only for an invocation on that element that has
\* just executed line 130
MarkedByItsInvocation ==
    \A e \in HTMLElements :
        (marker'[e] /\ ~marker[e]) =>
            \E t \in BagToSet(tasks') :
                /\ t.node = e
                /\ At(t.log, "mark") # 0
                /\ t \notin BagToSet(tasks)

\* C15: within one invocation extraction precedes scoring, scoring precedes
\* the threshold decision, the warning precedes the call of
\* recordInteraction, and the marker is set last, after the decision and,
\* when a warning was triggered, after the warning and after
\* recordInteraction has settled.
C15_PerContainerOrder ==
    [](\A t \in Invocations : OrderedLog(t)) /\ [][MarkedByItsInvocation]_vars

C15_Witness ==
    \E t \in Invocations :
        /\ t.log = <<"extract", "score", "decide", "warn", "record", "settled", "mark">>
        /\ marker[t.node]

\* an invocation that has returned or was left by an exception
Returned(t) == t.pc \in {"skipped", "noprofile", "done", "threw"}

\* an invocation whose recordInteraction is pending or has rejected
PersistenceStuck(t) == t.pc = "awaitRecord" \/ t.outcome = "rejected"

\* C16: cells are processed independently: while the recordInteraction of
\* one cell is pending, never settles or has rejected, every other offered
\* cell still reaches Processed: once its invocation has returned, its
\* marker is set.
C16_OthersReachProcessed ==
    \A u \in Invocations : (u.node.kind = "cell" /\ PersistenceStuck(u)) =>
        \A t \in Invocations :
            (t.node.kind = "cell" /\ t.node.cell # u.node.cell /\ Returned(t))
                => marker[t.node]

\* the part of C16 that does not depend on the marker being set at all: a
\* suspended invocation can resume whatever the other invocations are doing,
\* and a step changes no marker but that of the element whose invocation it
\* advances
NoInterference ==
    \A t \in Invocations :
        /\ t.pc = "awaitAnalyze" => ENABLED ResumeAnalyze(t)
        /\ t.pc = "awaitRecord" => \A o \in RecordOutcomes : ENABLED RecordSettles(t, o)
OwnMarkerOnly ==
    \A e \in HTMLElements :
        marker'[e] # marker[e] =>
            \E t \in BagToSet(tasks') : t.node = e /\ t \notin BagToSet(tasks)
IndependentInvocations == [](NoInterference) /\ [][OwnMarkerOnly]_vars

-----------------------------------------------------------------------------
(* Further properties of extraction (specification SpecExtract) *)

\* the interaction type that the text of the whole cell stands for
TypeOfText(text) ==
    CASE includes(text, <<"l","i","k","e","d">>)                 -> "Like"
      [] ~includes(text, <<"l","i","k","e","d">>)
            /\ includes(text, <<"r","e","p","l","i","e","d">>)   -> "Reply"
      [] ~includes(text, <<"l","i","k","e","d">>)
            /\ ~includes(text, <<"r","e","p","l","i","e","d">>)
            /\ includes(text, <<"r","e","p","o","s","t","e","d">>) -> "Repost"
      [] OTHER                                                   -> "Follow"

\* C17: the interaction type is Like if the text of the cell contains
\* 'liked', otherwise Reply if it contains 'replied', otherwise Repost if it
\* contains 'reposted', otherwise Follow; every record built from one cell
\* carries that one type.
C17_InteractionType ==
    /\ (ret.op = "parse" /\ ret.value # Null /\ ret.value.hasUsers) =>
          \A i \in DOMAIN ret.value.users :
              ret.value.users[i].interactionType = TypeOfText(CellText)
    /\ (ret.op = "extract" /\ ret.value # Null) =>
          ret.value.interactionType = TypeOfText(CellText)

C17_Witness ==
    /\ ret.op = "parse"
    /\ ret.value # Null
    /\ ret.value.hasUsers
    /\ Len(ret.value.users) = 2
    /\ includes(CellText, <<"r","e","p","o","s","t","e","d">>)
    /\ includes(CellText, <<"r","e","p","l","i","e","d">>)
    /\ \A i \in DOMAIN ret.value.users : ret.value.users[i].interactionType = "Reply"

-----------------------------------------------------------------------------
(* Properties of extraction followed by scoring (specification Spec) *)

\* the sum of the weights of the username heuristics that the profile matches
HeuristicSum(profile) ==
    LET IsHeuristic(k) == k # 1
    IN  DoubleSum(SelectSeq(MatchedConditions(profile), IsHeuristic), D0)

\* C18: every record passed from extraction to scoring has followersCount 0
\* and followingCount 0; every scored cell has probability at least 0.3 and
\* 'No followers or following' as its first reason; a warning is surfaced
\* exactly when the weights of the matched username heuristics sum to more
\* than 0.2.
C18_NoFollowersAlways ==
    \A t \in Invocations :
        t.analysis # <<>> =>
            /\ t.profile[1].followersCount = 0
            /\ t.profile[1].followingCount = 0
            /\ DLeq(D03, t.analysis[1].probability)
            /\ t.analysis[1].reasons # <<>>
            /\ t.analysis[1].reasons[1] = "No followers or following"
            /\ t.pc \in {"awaitRecord", "done", "threw"} =>
                  (t.warned <=> DLess(D02, HeuristicSum(t.profile[1])))

C18_Witness ==
    \E t \in Invocations :
        /\ t.pc = "done"
        /\ HeuristicSum(t.profile[1]) = D02
        /\ t.analysis[1].probability = D05
        /\ ~t.warned

-----------------------------------------------------------------------------
(* The randomLetters heuristic (specification SpecScore) *)

\* 1.5, the sum of the six other weights
SumOfOtherWeights == [hi |-> 3 * 2^26, lo |-> 0]

\* C19: the randomLetters pattern, which needs two upper-case letters,
\* matches no lower-cased username: its test adds no weight and no reason,
\* and the score before the cap is at most 1.5.
C19_RandomLettersDead ==
    ret.op \in {"analyze", "calculate"} =>
        LET steps == ScoreSteps(arg)
        IN  /\ ~randomLetters(toLowerCase(arg.username))
            /\ steps[8] = steps[7]
            /\ DLeq(steps[8], SumOfOtherWeights)
            /\ \A i \in DOMAIN ret.value.reasons :
                  ret.value.reasons[i] # "Username has random letters and numbers"

C19_Witness ==
    /\ ret.op = "analyze"
    /\ randomLetters(arg.username)
    /\ ~randomLetters(toLowerCase(arg.username))
    /\ ret.value.reasons # <<>>
    /\ ScoreSteps(arg)[8] = ScoreSteps(arg)[7]

-----------------------------------------------------------------------------
(* The community exemption in the pipeline (specification SpecExtract) *)

InternalPath == <<"/","i","/">>

\* a record whose link path holds /i/ or whose username is exempt from scoring
FromInternalPath(user) ==
    includes(<<"/">> \o user.username, InternalPath) \/ IsCommunityName(user.username)

\* C20: extraction builds no record from a link whose path contains /i/, so
\* no extracted record has a username beginning with i/communities/, and
\* every analysis made in the pipeline is the scored one (it has a reason),
\* never the exempt one.
C20_ExemptionUnreachable ==
    /\ (ret.op = "parse" /\ ret.value # Null) =>
          \A i \in DOMAIN ret.value.users : ~FromInternalPath(ret.value.users[i])
    /\ (ret.op = "extract" /\ ret.value # Null) => ~FromInternalPath(ret.value)
    /\ ret.op = "offer" =>
          \A t \in Invocations :
              t.profile # <<>> =>
                  /\ ~FromInternalPath(t.profile[1])
                  /\ t.analysis[1].reasons # <<>>
                  /\ DLess(D0, t.analysis[1].probability)

C20_Witness ==
    /\ ret.op = "offer"
    /\ arg.kind = "cell"
    /\ ~IsStructural(CellText)
    /\ \E i \in DOMAIN dom["c1"].links :
          /\ dom["c1"].links[i] = UserLink(U_community, T_name)
          /\ \E a \in Range(dom["c1"].avatars) :
                a.testid = AvatarPrefix \o U_community /\ HasProfileImage(a)
    /\ \E t \in Invocations :
          /\ t.profile # <<>>
          /\ t.profile[1].username = U_spam1234

====
